---- MODULE Spec2Model ----
(***************************************************************************)
(* Model of the MCP gateway of khaosans/mcp-server: the tool dispatcher    *)
(* (POST /tools) and the Morpho position resolver, in the two revisions of *)
(* the service kept in the repository:                                     *)
(*   "backend" : src/backend/main.py  (streams one SSE frame)              *)
(*   "server"  : src/server.py        (returns a JSON body)                *)
(* Python values are modelled as TLA+ strings (str), records (dict) and    *)
(* naturals (int). NoneV is None for names of the program itself; in a     *)
(* request body an absent key stands for None, so every string a body      *)
(* holds, "None" included, is a str.                                       *)
(***************************************************************************)
EXTENDS Naturals, Sequences, FiniteSets, TLC

(* Number of requests the process may have in flight at the same time. *)
NumReqs == 1

Reqs == 1..NumReqs

(* Number of requests in flight where requests are compared with each      *)
(* other.                                                                  *)
ConcReqs == 2

ConcSlots == 1..ConcReqs

(* The request slots of the process. *)
Slots == Reqs \cup ConcSlots

---------------------------------------------------------------------------
(* Python helpers *)

(* Python's None. *)
NoneV == "None"

(* `not v` for a name that holds None or a string of the program's own    *)
(* (market_id): None and "" are falsy.                                     *)
Falsy(v) == v = NoneV \/ v = ""

(* `not d.get(k)` for a JSON object d with string values: the key is       *)
(* absent (get returns None) or holds "". The string "None" is truthy.     *)
NotGet(d, k) == k \notin DOMAIN d \/ d[k] = ""

(* dict.get(key, default) *)
DictGet(d, k, default) == IF k \in DOMAIN d THEN d[k] ELSE default

DecDigit == <<"0", "1", "2", "3", "4", "5", "6", "7", "8", "9">>

(* str(n) for a non-negative int: its decimal digits. *)
RECURSIVE PyStr(_)
PyStr(n) == IF n < 10 THEN DecDigit[n + 1]
            ELSE PyStr(n \div 10) \o DecDigit[(n % 10) + 1]

(* "".join(chars) *)
RECURSIVE Join(_)
Join(cs) == IF cs = <<>> THEN "" ELSE Head(cs) \o Join(Tail(cs))

---------------------------------------------------------------------------
(* Constants of src/backend/morpho_constants.py *)

TEST_EOA == "0x2E2Ea30Ba045Df4bC38e80cF11E119E12e06C1C2"

MARKETS_AT_STARTUP ==
    [p \in {"cbBTC/USDC", "cbETH/USDC", "wstETH/USDC", "USDbC/USDC"} |->
        CASE p = "cbBTC/USDC"  -> "0x9103c3b4e834476c9a62ea009ba2c884ee42e94e6e314a26f04d312434191836"
          [] p = "cbETH/USDC"  -> "0x7b592c6018b08a4fc0a33d0de0b8f2c3a42c5c6d8e314a26f04d312434191836"
          [] p = "wstETH/USDC" -> "0x5b592c6018b08a4fc0a33d0de0b8f2c3a42c5c6d8e314a26f04d312434191836"
          [] p = "USDbC/USDC"  -> "0x4b592c6018b08a4fc0a33d0de0b8f2c3a42c5c6d8e314a26f04d312434191836"]

MOCK_POSITIONS_AT_STARTUP ==
    [w \in {TEST_EOA} |->
        [p \in {"cbBTC/USDC", "cbETH/USDC"} |->
            IF p = "cbBTC/USDC"
            THEN [supply_shares |-> "1000000000000000000",
                  borrow_shares |-> "0",
                  collateral    |-> "500000000000000000"]
            ELSE [supply_shares |-> "2000000000000000000",
                  borrow_shares |-> "1000000000000000000",
                  collateral    |-> "1000000000000000000"]]]

---------------------------------------------------------------------------
(* Web3.to_checksum_address (EIP-55), as called by get_morpho_position.    *)
(* The characters of a string and the Keccak-256 digest are tables over    *)
(* the wallet strings the model submits; the normalisation itself (prefix  *)
(* and length test, lower-casing, hash-driven upper-casing) is computed.   *)

WALLET_LOWER == "0x2e2ea30ba045df4bc38e80cf11e119e12e06c1c2"
WALLET_OTHER == "0x00000000000000000000000000000000000000aa"
WALLET_BAD   == "0x123"

(* The characters of each wallet string (list(s)). *)
Chars(s) ==
    CASE s = "0x2E2Ea30Ba045Df4bC38e80cF11E119E12e06C1C2" ->
         <<"0", "x", "2", "E", "2", "E", "a", "3", "0", "B", "a", "0", "4", "5", "D", "f", "4", "b", "C", "3", "8", "e", "8", "0", "c", "F", "1", "1", "E", "1", "1", "9", "E", "1", "2", "e", "0", "6", "C", "1", "C", "2">>
      [] s = "0x2e2ea30ba045df4bc38e80cf11e119e12e06c1c2" ->
         <<"0", "x", "2", "e", "2", "e", "a", "3", "0", "b", "a", "0", "4", "5", "d", "f", "4", "b", "c", "3", "8", "e", "8", "0", "c", "f", "1", "1", "e", "1", "1", "9", "e", "1", "2", "e", "0", "6", "c", "1", "c", "2">>
      [] s = "0x00000000000000000000000000000000000000aa" ->
         <<"0", "x", "0", "0", "0", "0", "0", "0", "0", "0", "0", "0", "0", "0", "0", "0", "0", "0", "0", "0", "0", "0", "0", "0", "0", "0", "0", "0", "0", "0", "0", "0", "0", "0", "0", "0", "0", "0", "0", "0", "a", "a">>
      [] s = "0x00000000000000000000000000000000000000AA" ->
         <<"0", "x", "0", "0", "0", "0", "0", "0", "0", "0", "0", "0", "0", "0", "0", "0", "0", "0", "0", "0", "0", "0", "0", "0", "0", "0", "0", "0", "0", "0", "0", "0", "0", "0", "0", "0", "0", "0", "0", "0", "A", "A">>
      [] s = "0x123" ->
         <<"0", "x", "1", "2", "3">>
      [] OTHER -> <<>>

(* The first 40 hex digits of keccak256 of the lower-case, unprefixed      *)
(* address text, as numbers 0..15.                                         *)
KeccakNibbles(lowerHex) ==
    CASE lowerHex = "2e2ea30ba045df4bc38e80cf11e119e12e06c1c2" ->
         <<10, 12, 9, 11, 0, 9, 4, 10, 2, 2, 6, 1, 11, 6, 13, 3, 14, 9, 2, 1, 5, 1, 1, 12, 0, 13, 14, 13, 1, 12, 8, 1, 14, 4, 10, 5, 14, 4, 10, 6>>
      [] lowerHex = "00000000000000000000000000000000000000aa" ->
         <<8, 11, 9, 0, 12, 12, 8, 9, 4, 13, 11, 14, 6, 9, 2, 12, 2, 6, 10, 0, 2, 5, 12, 15, 7, 2, 10, 8, 0, 10, 1, 9, 9, 1, 3, 11, 0, 7, 9, 10>>

LowerHexLetters == <<"a", "b", "c", "d", "e", "f">>
UpperHexLetters == <<"A", "B", "C", "D", "E", "F">>
HexDigitChars ==
    {DecDigit[i] : i \in 1..10}
        \cup {LowerHexLetters[i] : i \in 1..6} \cup {UpperHexLetters[i] : i \in 1..6}

(* c.lower() and c.upper() for one hex character *)
LowerChar(c) ==
    IF \E i \in 1..6 : UpperHexLetters[i] = c
    THEN LowerHexLetters[CHOOSE i \in 1..6 : UpperHexLetters[i] = c] ELSE c
UpperChar(c) ==
    IF \E i \in 1..6 : LowerHexLetters[i] = c
    THEN UpperHexLetters[CHOOSE i \in 1..6 : LowerHexLetters[i] = c] ELSE c

(* is_address of the normalised text: "0x" followed by 40 hex digits. *)
IsHexAddress(cs) ==
    /\ Len(cs) = 42
    /\ cs[1] = "0" /\ cs[2] \in {"x", "X"}
    /\ \A i \in 3..42 : cs[i] \in HexDigitChars

(* The address in checksum form; only for s with IsHexAddress(Chars(s)). *)
ChecksumForm(s) ==
    LET lower == [i \in 1..40 |-> LowerChar(Chars(s)[i + 2])]
        hash  == KeccakNibbles(Join(lower))
    IN  "0x" \o Join([i \in 1..40 |->
                         IF hash[i] > 7 THEN UpperChar(lower[i]) ELSE lower[i]])

(* Web3.to_checksum_address(s): <<"ok", checksum>> or <<"ValueError", msg>> *)
ToChecksumAddress(s) ==
    IF IsHexAddress(Chars(s))
    THEN <<"ok", ChecksumForm(s)>>
    ELSE <<"ValueError", "Unknown format " \o s>>

---------------------------------------------------------------------------
(* Exceptions *)

AttributeError(msg) == [type |-> "AttributeError", status_code |-> 0, detail |-> msg]

ValueError(msg) == [type |-> "ValueError", status_code |-> 0, detail |-> msg]

HTTPException(code, d) == [type |-> "HTTPException", status_code |-> code, detail |-> d]

(* str(e): the message of a ValueError; "<status_code>: <detail>" for an   *)
(* HTTPException.                                                          *)
StrExc(e) ==
    IF e.type = "HTTPException" THEN PyStr(e.status_code) \o ": " \o e.detail
    ELSE e.detail

---------------------------------------------------------------------------
(* HTTP responses of POST /tools *)

NoResp == [status |-> 0, media |-> "", content |-> <<>>, detail |-> ""]

(* A JSON body returned by the handler (src/server.py). *)
JsonResponse(rec) ==
    [status |-> 200, media |-> "json", content |-> <<rec>>, detail |-> ""]

(* StreamingResponse(stream_tool_response(body)): status 200 and the       *)
(* frames the generator yields (src/backend/main.py).                      *)
StreamingResponse(frames) ==
    [status |-> 200, media |-> "event-stream", content |-> frames, detail |-> ""]

(* What FastAPI sends for a raised HTTPException. *)
ErrorResponse(e) ==
    [status |-> e.status_code, media |-> "error", content |-> <<>>, detail |-> e.detail]

(* "data: " + json.dumps(payload) + "\n\n" *)
SseFrame(payload) == [data |-> payload]

---------------------------------------------------------------------------
(* Inputs *)

Tasks   == {NoneV, "summarize", "morpho_get_position", "unknown_task"}
Texts   == {NoneV, "hello"}
Wallets == {NoneV, TEST_EOA, WALLET_LOWER, WALLET_OTHER, WALLET_BAD}
Pools   == {NoneV, "cbBTC/USDC", "cbETH/USDC", "wstETH/USDC", "USDbC/USDC", "DAI/USDC"}

(* A JSON object with the given keys; NoneV stands for an absent key. *)
MakeDict(task, text, wallet, pool) ==
    LET all  == [task |-> task, text |-> text, wallet |-> wallet, pool_id |-> pool]
        keys == {k \in DOMAIN all : all[k] # NoneV}
    IN  [k \in keys |-> all[k]]

(* The request bodies submitted: only the keys the chosen task reads. *)
Dicts ==
    {MakeDict(NoneV, NoneV, NoneV, NoneV), MakeDict("unknown_task", NoneV, NoneV, NoneV),
     [task |-> "None"]}
        \cup {MakeDict("summarize", t, NoneV, NoneV) : t \in Texts}
        \cup {MakeDict("morpho_get_position", NoneV, w, p) : w \in Wallets, p \in Pools}

EmptyDict == [k \in {} |-> ""]

(* A request: its body parses as JSON or it does not; the parsed value is  *)
(* an object (dict) or something else (a list).                            *)
Requests == {[valid_json |-> TRUE, is_object |-> TRUE, dict |-> d] : d \in Dicts}
                \cup {[valid_json |-> TRUE, is_object |-> FALSE, dict |-> EmptyDict],
                      [valid_json |-> FALSE, is_object |-> FALSE, dict |-> EmptyDict]}

NoRequest == [valid_json |-> FALSE, is_object |-> FALSE, dict |-> EmptyDict]

(* The position requests issued concurrently: spellings of two wallets,    *)
(* a pool of MARKETS and a pool that is not.                               *)
ConcWallets  == {TEST_EOA, WALLET_LOWER, WALLET_OTHER}
ConcPools    == {"cbBTC/USDC", "DAI/USDC"}
ConcRequests ==
    {[valid_json |-> TRUE, is_object |-> TRUE,
      dict |-> MakeDict("morpho_get_position", NoneV, w, p)] :
        w \in ConcWallets, p \in ConcPools}

(* Results of morpho_lens.functions.position(market_id, wallet).call(). *)
ChainPositions == {<<0, 0, 0>>, <<1500, 0, 730>>, <<7, 12, 0>>}
CallOutcomes ==
    {[ok |-> TRUE, position |-> pos] : pos \in ChainPositions}
        \cup {[ok |-> FALSE, position |-> <<0, 0, 0>>]}

(* The call outcomes of the concurrent requests: a failure and two         *)
(* different positions.                                                    *)
ConcCallOutcomes == {o \in CallOutcomes : o.position # <<7, 12, 0>>}

---------------------------------------------------------------------------
(* WebSocket frames and json.loads *)

(* Most frames the model lets one connection receive. *)
MaxFrames == 3

(* 2^DeepLog2 is the nesting depth of the deeply nested frame. *)
DeepLog2 == 17

RECURSIVE Doubled(_, _)
(* s repeated 2^k times. *)
Doubled(s, k) == IF k = 0 THEN s ELSE LET h == Doubled(s, k - 1) IN h \o h

(* Text frames a client sends: the two kinds test_websocket sends, a JSON  *)
(* number, and an array nested 2^DeepLog2 levels deep.                     *)
FrameText   == "Hello WebSocket!"
FrameObject == "{\"type\": \"test\", \"data\": \"JSON message\"}"
FrameNumber == "123"
FrameDeep   == Doubled("[", DeepLog2)

WsFrames == {FrameText, FrameObject, FrameNumber, FrameDeep}

(* json.loads(text): <<"ok", v>> where v is the parsed value, written as   *)
(* send_json serialises it (json.dumps with separators (",", ":")), or the *)
(* exception raised. The scanner recurses once per nesting level, so the   *)
(* deeply nested frame raises RecursionError, which is a RuntimeError and  *)
(* not a json.JSONDecodeError.                                             *)
JsonLoads(text) ==
    CASE text = FrameObject -> <<"ok", "{\"type\":\"test\",\"data\":\"JSON message\"}">>
      [] text = FrameNumber -> <<"ok", "123">>
      [] text = FrameDeep   -> <<"RecursionError", "">>
      [] OTHER              -> <<"JSONDecodeError", "">>

NoWsResponse == [status |-> "", message |-> ""]

(* The two dicts websocket_endpoint sends; message is in wire form. *)
ReceivedResponse(v) == [status |-> "received", message |-> v]
InvalidJsonResponse == [status |-> "error", message |-> "\"Invalid JSON\""]

---------------------------------------------------------------------------
VARIABLES
    variant,          \* which revision of the service the process runs
    morpho_lens,      \* module-level contract handle: "contract" or NoneV
    MARKETS,          \* morpho_constants.MARKETS
    MOCK_POSITIONS,   \* morpho_constants.MOCK_POSITIONS
    pc,               \* per request: position in run_tool / get_morpho_position
    request,          \* per request: the request body
    wallet_address,   \* per request: local of get_morpho_position
    market_id,        \* per request: local of get_morpho_position
    call_log,         \* per request: the contract calls issued so far (TRUE: succeeded)
    call_position,    \* per request: <<position>> once the contract call returned it
    invoked,          \* per request: handlers the dispatcher has invoked
    returned,         \* per request: <<record>> once get_morpho_position returned
    raised,           \* per request: <<exception>> once get_morpho_position raised
    resp,             \* per request: the HTTP response
    ws_pc,            \* position of websocket_endpoint on the one connection
    ws_state,         \* the connection: "Connecting", "Open" or "Closed"
    connection_open,  \* local of websocket_endpoint (backend/main.py)
    data,             \* local of websocket_endpoint: the frame just received
    ws_response,         \* the dict websocket_endpoint is about to send
    ws_received,      \* the text frames receive_text has returned, in order
    ws_sent,          \* the responses send_json has sent, in order
    close_calls,      \* how many times websocket.close() has been called
    ws_fault          \* where the transport raised: "none", "receive", "send", "send_os"

globals == <<variant, morpho_lens, MARKETS, MOCK_POSITIONS>>
locals  == <<wallet_address, market_id, call_log, call_position, invoked, returned, raised>>
wsvars  == <<ws_pc, ws_state, connection_open, data, ws_response, ws_received,
             ws_sent, close_calls, ws_fault>>
vars    == <<variant, morpho_lens, MARKETS, MOCK_POSITIONS, pc, request,
             wallet_address, market_id, call_log, call_position, invoked, returned,
             raised, resp,
             ws_pc, ws_state, connection_open, data, ws_response, ws_received,
             ws_sent, close_calls, ws_fault>>

(* Module initialisation. backend/main.py re-raises when the set-up fails, *)
(* so a running backend always has a handle; server.py keeps None.         *)
Init ==
    /\ variant \in {"backend", "server"}
    /\ morpho_lens \in (IF variant = "server" THEN {"contract", NoneV} ELSE {"contract"})
    /\ MARKETS = MARKETS_AT_STARTUP
    /\ MOCK_POSITIONS = MOCK_POSITIONS_AT_STARTUP
    /\ pc = [r \in Slots |-> "idle"]
    /\ request = [r \in Slots |-> NoRequest]
    /\ wallet_address = [r \in Slots |-> NoneV]
    /\ market_id = [r \in Slots |-> NoneV]
    /\ call_log = [r \in Slots |-> <<>>]
    /\ call_position = [r \in Slots |-> <<>>]
    /\ invoked = [r \in Slots |-> {}]
    /\ returned = [r \in Slots |-> <<>>]
    /\ raised = [r \in Slots |-> <<>>]
    /\ resp = [r \in Slots |-> NoResp]
    /\ ws_pc = "accept"
    /\ ws_state = "Connecting"
    /\ connection_open = FALSE
    /\ data = ""
    /\ ws_response = NoWsResponse
    /\ ws_received = <<>>
    /\ ws_sent = <<>>
    /\ close_calls = 0
    /\ ws_fault = "none"

---------------------------------------------------------------------------
(* POST /tools arrives. In server.py FastAPI parses the body into the      *)
(* handler's Dict parameter before run_tool runs, so only JSON objects     *)
(* reach it; backend/main.py parses the body itself.                       *)
Receive(r, req) ==
    /\ pc[r] = "idle"
    /\ (req.valid_json /\ req.is_object) \/ variant = "backend"
    /\ pc' = [pc EXCEPT ![r] = "run_tool"]
    /\ request' = [request EXCEPT ![r] = req]
    /\ UNCHANGED <<globals, wsvars, locals, resp>>

(* Mutant of DispatchError: the error frame is yielded without the         *)
(* `return`, so the generator goes on to the final `else` and yields again.*)
DispatchErrorNoReturn(v, d) ==
    StreamingResponse(<<SseFrame([error |-> d]), SseFrame([error |-> "Unknown task: None"])>>)

(* How the dispatcher reports an error it detects itself.                  *)
(* server.py: raise HTTPException(400, d) inside `try`, caught by          *)
(* `except Exception` and re-raised as HTTPException(500, str(e)).         *)
(* backend/main.py: one frame {"error": d}, then return.                   *)
DispatchError(v, d) ==
    IF v = "server"
    THEN ErrorResponse(HTTPException(500, StrExc(HTTPException(400, d))))
    ELSE StreamingResponse(<<SseFrame([error |-> d])>>)

(* How the dispatcher delivers a handler's result. *)
DispatchResult(v, rec) ==
    IF v = "server" THEN JsonResponse(rec) ELSE StreamingResponse(<<SseFrame(rec)>>)

(* How the dispatcher reports an exception e raised by a handler. *)
DispatchRaised(v, e) ==
    IF v = "server"
    THEN ErrorResponse(HTTPException(500, StrExc(e)))
    ELSE StreamingResponse(<<SseFrame([error |-> StrExc(e)])>>)

(* summarize_text(text) *)
summarize_text(text) == [summary |-> text]

(* Mutant of MissingPositionParams: only the wallet is tested. *)
MissingWalletOnly(d) == NotGet(d, "wallet")

(* The `if not wallet or not pool_id` test of the dispatcher. *)
MissingPositionParams(d) == NotGet(d, "wallet") \/ NotGet(d, "pool_id")

(* The dispatch on request["task"], up to the call of a handler:           *)
(* the body of stream_tool_response (backend/main.py) and of run_tool's    *)
(* try block (server.py).                                                  *)
Dispatch(r) ==
    LET d == request[r].dict
        finish(response, handlers) ==
            /\ resp' = [resp EXCEPT ![r] = response]
            /\ invoked' = [invoked EXCEPT ![r] = handlers]
            /\ pc' = [pc EXCEPT ![r] = "done"]
    IN  IF ~request[r].is_object
        THEN \* request.get raises AttributeError inside the generator's try
             finish(DispatchRaised(variant,
                        AttributeError("'list' object has no attribute 'get'")), {})
        ELSE IF NotGet(d, "task")
        THEN finish(DispatchError(variant, "No task specified"), {})
        ELSE IF d.task = "summarize"
        THEN finish(DispatchResult(variant, summarize_text(DictGet(d, "text", ""))),
                    {"summarize_text"})
        ELSE IF d.task = "morpho_get_position"
        THEN IF MissingPositionParams(d)
             THEN finish(DispatchError(variant, "Missing wallet or pool_id"), {})
             ELSE /\ invoked' = [invoked EXCEPT ![r] = {"get_morpho_position"}]
                  /\ pc' = [pc EXCEPT ![r] = "get_morpho_position"]
                  /\ resp' = resp
        ELSE finish(DispatchError(variant, "Unknown task: " \o d.task), {})

(* run_tool resumes with the request body.                                 *)
(* backend/main.py: `await request.json()` raises for a body that is not   *)
(* JSON (HTTPException(500, str(e))); otherwise run_tool returns the       *)
(* StreamingResponse, whose status 200 goes out before the generator       *)
(* stream_tool_response is started.                                        *)
(* server.py: run_tool dispatches in its own body.                         *)
RunTool(r) ==
    /\ pc[r] = "run_tool"
    /\ IF variant = "backend"
       THEN IF ~request[r].valid_json
            THEN /\ resp' = [resp EXCEPT ![r] = ErrorResponse(
                         HTTPException(500, "Expecting value: line 1 column 1 (char 0)"))]
                 /\ pc' = [pc EXCEPT ![r] = "done"]
                 /\ invoked' = invoked
            ELSE /\ resp' = [resp EXCEPT ![r] = StreamingResponse(<<>>)]
                 /\ pc' = [pc EXCEPT ![r] = "stream_tool_response"]
                 /\ invoked' = invoked
       ELSE Dispatch(r)
    /\ UNCHANGED <<globals, wsvars, request, wallet_address, market_id, call_position, call_log, returned, raised>>

(* backend/main.py: the generator stream_tool_response starts, after the   *)
(* response has been started, and runs up to the call of a handler.        *)
StreamToolResponse(r) ==
    /\ pc[r] = "stream_tool_response"
    /\ Dispatch(r)
    /\ UNCHANGED <<globals, wsvars, request, wallet_address, market_id, call_position, call_log, returned, raised>>

---------------------------------------------------------------------------
(* get_morpho_position *)

(* The two `except` clauses that close get_morpho_position: a ValueError   *)
(* becomes HTTPException(400), anything else HTTPException(500).           *)
ResolverExcept(e) ==
    IF e.type = "ValueError"
    THEN HTTPException(400, StrExc(e))
    ELSE HTTPException(500, StrExc(e))

(* What `if not market_id:` raises inside the outer try.                   *)
(* backend/main.py raises ValueError; server.py raises HTTPException(400). *)
InvalidPoolRaise(v, pool_id) ==
    IF v = "backend"
    THEN ValueError("Invalid pool_id: " \o pool_id)
    ELSE HTTPException(400, "Invalid pool_id: " \o pool_id)

(* Mutant of GetMorphoPosition: wallet_address is one module-level name    *)
(* shared by all the requests in flight.                                   *)
GetMorphoPositionSharedWallet(r) ==
    /\ pc[r] = "get_morpho_position"
    /\ LET cs  == ToChecksumAddress(request[r].dict.wallet)
           mid == DictGet(MARKETS, request[r].dict.pool_id, NoneV)
       IN  IF cs[1] # "ok" \/ Falsy(mid)
           THEN /\ raised' = [raised EXCEPT ![r] = <<HTTPException(500, "")>>]
                /\ pc' = [pc EXCEPT ![r] = "return"]
                /\ UNCHANGED <<wallet_address, market_id>>
           ELSE /\ wallet_address' = [s \in Slots |-> cs[2]]
                /\ market_id' = [market_id EXCEPT ![r] = mid]
                /\ pc' = [pc EXCEPT ![r] = "call"]
                /\ raised' = raised
    /\ UNCHANGED <<globals, wsvars, request, call_log, call_position, invoked, returned, resp>>

(* Mutant of GetMorphoPosition: the wallet is used as supplied, without    *)
(* Web3.to_checksum_address.                                               *)
GetMorphoPositionRawWallet(r) ==
    /\ pc[r] = "get_morpho_position"
    /\ LET mid == DictGet(MARKETS, request[r].dict.pool_id, NoneV)
       IN  IF Falsy(mid)
           THEN /\ raised' = [raised EXCEPT ![r] =
                       <<ResolverExcept(InvalidPoolRaise(variant, request[r].dict.pool_id))>>]
                /\ pc' = [pc EXCEPT ![r] = "return"]
                /\ UNCHANGED <<wallet_address, market_id>>
           ELSE /\ wallet_address' = [wallet_address EXCEPT ![r] = request[r].dict.wallet]
                /\ market_id' = [market_id EXCEPT ![r] = mid]
                /\ pc' = [pc EXCEPT ![r] = "call"]
                /\ raised' = raised
    /\ UNCHANGED <<globals, wsvars, request, call_log, call_position, invoked, returned, resp>>

(* Entry of get_morpho_position: checksum the wallet, look the pool up. *)
GetMorphoPosition(r) ==
    /\ pc[r] = "get_morpho_position"
    /\ LET wallet  == request[r].dict.wallet
           pool_id == request[r].dict.pool_id
           cs      == ToChecksumAddress(wallet)
           mid     == DictGet(MARKETS, pool_id, NoneV)
           raise(e) ==
               /\ raised' = [raised EXCEPT ![r] = <<ResolverExcept(e)>>]
               /\ pc' = [pc EXCEPT ![r] = "return"]
               /\ UNCHANGED <<wallet_address, market_id>>
       IN  IF cs[1] # "ok"
           THEN raise(ValueError(cs[2]))
           ELSE IF Falsy(mid)
           THEN raise(InvalidPoolRaise(variant, pool_id))
           ELSE /\ wallet_address' = [wallet_address EXCEPT ![r] = cs[2]]
                /\ market_id' = [market_id EXCEPT ![r] = mid]
                /\ pc' = [pc EXCEPT ![r] = "call"]
                /\ raised' = raised
    /\ UNCHANGED <<globals, wsvars, request, call_log, call_position, invoked, returned, resp>>

(* The record built from the tuple the contract call returned. *)
ChainRecord(v, wallet, pool_id, mid, position) ==
    IF v = "backend"
    THEN [wallet    |-> wallet,
          pool_id   |-> pool_id,
          market_id |-> mid,
          position  |-> [supply     |-> PyStr(position[1]),
                         borrow     |-> PyStr(position[2]),
                         collateral |-> PyStr(position[3])],
          source    |-> "chain"]
    ELSE [wallet        |-> wallet,
          pool_id       |-> pool_id,
          market_id     |-> mid,
          supply_shares |-> PyStr(position[1]),
          borrow_shares |-> PyStr(position[2]),
          collateral    |-> PyStr(position[3]),
          source        |-> "on-chain"]

(* Mutant of ContractCall: no inner try, a failed call leaves the resolver  *)
(* through its `except Exception` clause as HTTPException(500).            *)
ContractCallUnguarded(r, outcome) ==
    /\ pc[r] = "call"
    /\ call_log' = [call_log EXCEPT ![r] = Append(@, outcome.ok)]
    /\ pc' = [pc EXCEPT ![r] = "return"]
    /\ IF outcome.ok
       THEN /\ returned' = [returned EXCEPT ![r] =
                  <<[wallet |-> wallet_address[r], source |-> "chain"]>>]
            /\ raised' = raised
       ELSE /\ raised' = [raised EXCEPT ![r] = <<HTTPException(500, "call failed")>>]
            /\ returned' = returned
    /\ UNCHANGED <<globals, wsvars, request, wallet_address, market_id, call_position, invoked, resp>>

(* Mutant of ContractCall: a failed call is retried once. *)
ContractCallRetry(r, outcome) ==
    /\ pc[r] = "call"
    /\ call_log' = [call_log EXCEPT ![r] = Append(@, outcome.ok)]
    /\ IF outcome.ok
       THEN /\ returned' = [returned EXCEPT ![r] =
                  <<[wallet |-> wallet_address[r], source |-> "chain"]>>]
            /\ pc' = [pc EXCEPT ![r] = "return"]
       ELSE /\ pc' = [pc EXCEPT ![r] = IF call_log[r] = <<>> THEN "call" ELSE "fallback"]
            /\ returned' = returned
    /\ UNCHANGED <<globals, wsvars, request, wallet_address, market_id, call_position, invoked, raised, resp>>

(* The `try:` block: one call of the Lens contract. With morpho_lens None  *)
(* (server.py) the attribute access raises before any call is issued.      *)
ContractCall(r, outcome) ==
    /\ pc[r] = "call"
    /\ IF morpho_lens = NoneV
       THEN /\ pc' = [pc EXCEPT ![r] = "fallback"]
            /\ UNCHANGED <<call_log, call_position, returned>>
       ELSE /\ call_log' = [call_log EXCEPT ![r] = Append(@, outcome.ok)]
            /\ IF outcome.ok
               THEN /\ call_position' = [call_position EXCEPT ![r] = <<outcome.position>>]
                    /\ returned' = [returned EXCEPT ![r] =
                          <<ChainRecord(variant, wallet_address[r],
                                        request[r].dict.pool_id, market_id[r],
                                        outcome.position)>>]
                    /\ pc' = [pc EXCEPT ![r] = "return"]
               ELSE /\ pc' = [pc EXCEPT ![r] = "fallback"]
                    /\ UNCHANGED <<call_position, returned>>
    /\ UNCHANGED <<globals, wsvars, request, wallet_address, market_id, invoked, raised, resp>>

(* {**a, **b}: the keys of b override those of a. *)
DictMerge(a, b) ==
    [k \in DOMAIN a \cup DOMAIN b |-> IF k \in DOMAIN b THEN b[k] ELSE a[k]]

(* MOCK_POSITIONS.get(wallet, {}).get(pool_id) is a non-empty dict. *)
HasMock(mock, wallet, pool_id) ==
    /\ wallet \in DOMAIN mock
    /\ pool_id \in DOMAIN mock[wallet]
    /\ DOMAIN mock[wallet][pool_id] # {}

(* Mutant of FallbackRecord: the fallback is tagged "mock" without looking  *)
(* the pair up in the store.                                               *)
FallbackRecordNoLookup(v, mock, wallet, pool_id, mid) ==
    [wallet        |-> wallet,
     pool_id       |-> pool_id,
     market_id     |-> mid,
     supply_shares |-> "1000000000000000000",
     borrow_shares |-> "0",
     collateral    |-> "500000000000000000",
     source        |-> "mock"]

(* The record the `except Exception` block of the contract call returns.   *)
(* backend/main.py: the MOCK_POSITIONS entry, else zeros.                  *)
(* server.py: one fixed record, whatever the wallet and the pool.          *)
FallbackRecord(v, mock, wallet, pool_id, mid) ==
    LET base == [wallet |-> wallet, pool_id |-> pool_id, market_id |-> mid]
    IN  IF v = "backend"
        THEN IF HasMock(mock, wallet, pool_id)
             THEN DictMerge(DictMerge(base, mock[wallet][pool_id]), [source |-> "mock"])
             ELSE DictMerge(base, [supply_shares |-> "0",
                                   borrow_shares |-> "0",
                                   collateral    |-> "0",
                                   source        |-> "empty"])
        ELSE DictMerge(base, [supply_shares |-> "1000000000000000000",
                              borrow_shares |-> "0",
                              collateral    |-> "500000000000000000",
                              source        |-> "mock"])

(* Mutant of Fallback: the result is built by updating the stored entry   *)
(* in place (mock_data["source"] = "mock") instead of copying it.          *)
FallbackInPlace(r) ==
    /\ pc[r] = "fallback"
    /\ LET w   == wallet_address[r]
           p   == request[r].dict.pool_id
           rec == FallbackRecord(variant, MOCK_POSITIONS, w, p, market_id[r])
       IN  /\ returned' = [returned EXCEPT ![r] = <<rec>>]
           /\ MOCK_POSITIONS' =
                  IF HasMock(MOCK_POSITIONS, w, p)
                  THEN [MOCK_POSITIONS EXCEPT ![w][p] = DictMerge(@, [source |-> "mock"])]
                  ELSE MOCK_POSITIONS
    /\ pc' = [pc EXCEPT ![r] = "return"]
    /\ UNCHANGED <<variant, morpho_lens, MARKETS, wsvars, request, wallet_address,
                   market_id, call_position, call_log, invoked, raised, resp>>

(* The `except Exception` block after a failed contract call. *)
Fallback(r) ==
    /\ pc[r] = "fallback"
    /\ returned' = [returned EXCEPT ![r] =
           <<FallbackRecord(variant, MOCK_POSITIONS, wallet_address[r],
                            request[r].dict.pool_id, market_id[r])>>]
    /\ pc' = [pc EXCEPT ![r] = "return"]
    /\ UNCHANGED <<globals, wsvars, request, wallet_address, market_id, call_position, call_log, invoked, raised, resp>>

(* Back in the dispatcher: the awaited get_morpho_position returned or     *)
(* raised.                                                                 *)
Return(r) ==
    /\ pc[r] = "return"
    /\ resp' = [resp EXCEPT ![r] =
           IF returned[r] # <<>>
           THEN DispatchResult(variant, returned[r][1])
           ELSE DispatchRaised(variant, raised[r][1])]
    /\ pc' = [pc EXCEPT ![r] = "done"]
    /\ UNCHANGED <<globals, wsvars, request, locals>>

(* The response is sent; nothing of the request is kept. *)
Finish(r) ==
    /\ pc[r] = "done"
    /\ pc' = [pc EXCEPT ![r] = "idle"]
    /\ request' = [request EXCEPT ![r] = NoRequest]
    /\ wallet_address' = [wallet_address EXCEPT ![r] = NoneV]
    /\ market_id' = [market_id EXCEPT ![r] = NoneV]
    /\ call_log' = [call_log EXCEPT ![r] = <<>>]
    /\ call_position' = [call_position EXCEPT ![r] = <<>>]
    /\ invoked' = [invoked EXCEPT ![r] = {}]
    /\ returned' = [returned EXCEPT ![r] = <<>>]
    /\ raised' = [raised EXCEPT ![r] = <<>>]
    /\ resp' = [resp EXCEPT ![r] = NoResp]
    /\ UNCHANGED <<globals, wsvars>>

---------------------------------------------------------------------------
(* websocket_endpoint, one connection *)

(* await websocket.accept() *)
WsAccept ==
    /\ ws_pc = "accept"
    /\ ws_state' = "Open"
    /\ connection_open' = IF variant = "backend" THEN TRUE ELSE connection_open
    /\ ws_pc' = "receive"
    /\ UNCHANGED <<globals, pc, request, locals, resp, data, ws_response,
                   ws_received, ws_sent, close_calls, ws_fault>>

(* data = await websocket.receive_text() returns a frame. *)
WsReceive(frame) ==
    /\ ws_pc = "receive"
    /\ Len(ws_received) < MaxFrames
    /\ data' = frame
    /\ ws_received' = Append(ws_received, frame)
    /\ ws_pc' = "loads"
    /\ UNCHANGED <<globals, pc, request, locals, resp, ws_state, connection_open,
                   ws_response, ws_sent, close_calls, ws_fault>>

(* receive_text raises: the client disconnected or the transport failed.   *)
WsReceiveFail ==
    /\ ws_pc = "receive"
    /\ ws_fault' = "receive"
    /\ ws_pc' = "except"
    /\ UNCHANGED <<globals, pc, request, locals, resp, ws_state, connection_open,
                   data, ws_response, ws_received, ws_sent, close_calls>>

(* Mutant of WsLoads: the response is handed to a background task and the  *)
(* loop goes back to receive without awaiting the send.                    *)
WsLoadsNoAwait ==
    /\ ws_pc = "loads"
    /\ ws_response' = IF JsonLoads(data)[1] = "ok"
                   THEN ReceivedResponse(JsonLoads(data)[2])
                   ELSE InvalidJsonResponse
    /\ ws_pc' = "receive"
    /\ UNCHANGED <<globals, pc, request, locals, resp, ws_state, connection_open,
                   data, ws_received, ws_sent, close_calls, ws_fault>>

(* message = json.loads(data) in the inner try: a parsed value goes to the *)
(* first send_json, json.JSONDecodeError to the second; any other          *)
(* exception leaves the loop for the outer `except Exception`.             *)
WsLoads ==
    /\ ws_pc = "loads"
    /\ LET res == JsonLoads(data)
       IN  IF res[1] = "ok"
           THEN /\ ws_response' = ReceivedResponse(res[2])
                /\ ws_pc' = "send"
           ELSE IF res[1] = "JSONDecodeError"
           THEN /\ ws_response' = InvalidJsonResponse
                /\ ws_pc' = "send"
           ELSE /\ ws_response' = ws_response
                /\ ws_pc' = "except"
    /\ UNCHANGED <<globals, pc, request, locals, resp, ws_state, connection_open,
                   data, ws_received, ws_sent, close_calls, ws_fault>>

(* await websocket.send_json(...) completes; the loop receives again. *)
WsSend ==
    /\ ws_pc = "send"
    /\ ws_sent' = Append(ws_sent, ws_response)
    /\ ws_pc' = "receive"
    /\ UNCHANGED <<globals, pc, request, locals, resp, ws_state, connection_open,
                   data, ws_response, ws_received, close_calls, ws_fault>>

(* send_json raises. Neither send is guarded against transport errors, so  *)
(* the exception reaches the outer handler. When the transport failed with *)
(* an OSError the connection is marked disconnected ("send_os"); any other *)
(* exception leaves it as it was ("send").                                 *)
WsSendFail(os_error) ==
    /\ ws_pc = "send"
    /\ ws_fault' = IF os_error THEN "send_os" ELSE "send"
    /\ ws_pc' = "except"
    /\ UNCHANGED <<globals, pc, request, locals, resp, ws_state, connection_open,
                   data, ws_response, ws_received, ws_sent, close_calls>>

(* Mutant of WsClose: close is called in the except block and again in a   *)
(* finally block.                                                          *)
WsCloseTwice ==
    /\ ws_pc = "except"
    /\ close_calls' = close_calls + 2
    /\ ws_pc' = "close"
    /\ UNCHANGED <<globals, pc, request, locals, resp, ws_state, connection_open,
                   data, ws_response, ws_received, ws_sent, ws_fault>>

(* The outer `except Exception`: log, then call websocket.close() and      *)
(* wait for it. backend/main.py calls it under `if connection_open`,       *)
(* server.py in `finally`.                                                 *)
WsClose ==
    /\ ws_pc = "except"
    /\ IF variant = "backend" /\ ~connection_open
       THEN /\ ws_pc' = "end"
            /\ close_calls' = close_calls
       ELSE /\ ws_pc' = "close"
            /\ close_calls' = close_calls + 1
    /\ UNCHANGED <<globals, pc, request, locals, resp, ws_state, connection_open,
                   data, ws_response, ws_received, ws_sent, ws_fault>>

(* The outcomes of `await websocket.close()`: it returns, or it raises.    *)
(* On a connection marked disconnected by a failed send close always       *)
(* raises; otherwise the transport decides.                                *)
CloseOutcomes == IF ws_fault = "send_os" THEN {TRUE} ELSE {TRUE, FALSE}

(* `await websocket.close()` completes. backend/main.py clears             *)
(* connection_open on the next line, which is not reached when close       *)
(* raises. Then the coroutine ends, with the exception of close if it      *)
(* raised.                                                                 *)
WsCloseDone(close_raises) ==
    /\ ws_pc = "close"
    /\ close_raises \in CloseOutcomes
    /\ ws_state' = "Closed"
    /\ connection_open' = IF variant = "backend" /\ ~close_raises
                          THEN FALSE ELSE connection_open
    /\ ws_pc' = "end"
    /\ UNCHANGED <<globals, pc, request, locals, resp, data, ws_response,
                   ws_received, ws_sent, close_calls, ws_fault>>

NextWs ==
    \/ WsAccept
    \/ \E frame \in WsFrames : WsReceive(frame)
    \/ WsReceiveFail
    \/ WsLoads
    \/ WsSend
    \/ \E os_error \in BOOLEAN : WsSendFail(os_error)
    \/ WsClose
    \/ \E close_raises \in BOOLEAN : WsCloseDone(close_raises)

SpecWs == Init /\ [][NextWs]_vars

Next ==
    \/ \E r \in Reqs, req \in Requests : Receive(r, req)
    \/ \E r \in Reqs : RunTool(r)
    \/ \E r \in Reqs : StreamToolResponse(r)
    \/ \E r \in Reqs : GetMorphoPosition(r)
    \/ \E r \in Reqs, outcome \in CallOutcomes : ContractCall(r, outcome)
    \/ \E r \in Reqs : Fallback(r)
    \/ \E r \in Reqs : Return(r)
    \/ \E r \in Reqs : Finish(r)

Spec == Init /\ [][Next]_vars

(* ConcReqs position requests in flight, interleaved at their awaits. *)
NextConc ==
    \/ \E r \in ConcSlots, req \in ConcRequests : Receive(r, req)
    \/ \E r \in ConcSlots : RunTool(r)
    \/ \E r \in ConcSlots : StreamToolResponse(r)
    \/ \E r \in ConcSlots : GetMorphoPosition(r)
    \/ \E r \in ConcSlots, outcome \in ConcCallOutcomes : ContractCall(r, outcome)
    \/ \E r \in ConcSlots : Fallback(r)
    \/ \E r \in ConcSlots : Return(r)
    \/ \E r \in ConcSlots : Finish(r)

SpecConc == Init /\ [][NextConc]_vars

---------------------------------------------------------------------------
(* Vocabulary of the properties *)

(* Web3.to_checksum_address of every wallet value submitted, tabulated.    *)
ChecksumOf == [w \in Wallets |-> ToChecksumAddress(w)]

ReqDict(r)   == request[r].dict
ReqTask(r)   == DictGet(ReqDict(r), "task", NoneV)
ReqWallet(r) == DictGet(ReqDict(r), "wallet", NoneV)
ReqPool(r)   == DictGet(ReqDict(r), "pool_id", NoneV)

ValidWallet(r) == ChecksumOf[ReqWallet(r)][1] = "ok"
KnownPool(r)   == ReqPool(r) \in DOMAIN MARKETS

(* get_morpho_position was invoked for r and has returned or raised. *)
ResolverDone(r) ==
    /\ pc[r] \in {"return", "done"}
    /\ invoked[r] = {"get_morpho_position"}

(* The contract call of r was issued and returned a position. *)
CallSucceeded(r) == call_log[r] # <<>> /\ call_log[r][Len(call_log[r])]

(* The Mock Position Store holds an entry for the pair. *)
InStore(wallet, pool_id) ==
    /\ wallet \in DOMAIN MOCK_POSITIONS
    /\ pool_id \in DOMAIN MOCK_POSITIONS[wallet]

NumericFields == {"supply_shares", "borrow_shares", "collateral"}

(* The JSON value a response carries: the body, or the data of its frame. *)
Payloads(response) ==
    IF response.media = "event-stream"
    THEN [i \in 1..Len(response.content) |-> response.content[i].data]
    ELSE response.content

(* The response reports an error: an HTTP error, or a frame {"error": ..}. *)
IsErrorResponse(response) ==
    \/ response.media = "error"
    \/ \E i \in 1..Len(Payloads(response)) : "error" \in DOMAIN Payloads(response)[i]

(* The text of the error a response reports. *)
ErrorText(response) ==
    IF response.media = "error" THEN response.detail
    ELSE IF Payloads(response) # <<>> /\ "error" \in DOMAIN Payloads(response)[1]
    THEN Payloads(response)[1].error
    ELSE ""

---------------------------------------------------------------------------
(* C1: in backend/main.py, for a valid wallet and a pool of MARKETS, the   *)
(* resolver returns a record whose source is "chain" exactly when the      *)
(* contract call succeeded, "mock" exactly when it failed and              *)
(* MOCK_POSITIONS holds (checksummed wallet, pool), and "empty" exactly    *)
(* when it failed and the store holds no such entry.                       *)
C1_Precedence ==
    \A r \in Reqs :
        (variant = "backend" /\ ResolverDone(r) /\ ValidWallet(r) /\ KnownPool(r)) =>
            /\ returned[r] # <<>>
            /\ LET rec == returned[r][1]
                   ok  == CallSucceeded(r)
                   hit == InStore(ChecksumOf[ReqWallet(r)][2], ReqPool(r))
               IN  /\ rec.source = "chain" <=> ok
                   /\ rec.source = "mock"  <=> (~ok /\ hit)
                   /\ rec.source = "empty" <=> (~ok /\ ~hit)

(* C1 witness: backend answered a lower-case spelling of the stored wallet *)
(* from the store after its contract call failed.                          *)
C1_Witness ==
    \E r \in Reqs :
        /\ variant = "backend" /\ ResolverDone(r)
        /\ ReqWallet(r) = WALLET_LOWER /\ call_log[r] = <<FALSE>>
        /\ returned[r] # <<>> /\ returned[r][1].source = "mock"

(* C2: for a pair absent from the Mock Position Store, with the chain      *)
(* lookup failing, the resolver of either variant returns source "empty"   *)
(* and "0" in all three numeric fields.                                    *)
C2_EmptyFallback ==
    \A r \in Reqs :
        (/\ ResolverDone(r) /\ ValidWallet(r) /\ KnownPool(r)
         /\ ~CallSucceeded(r)
         /\ ~InStore(ChecksumOf[ReqWallet(r)][2], ReqPool(r))) =>
            /\ returned[r] # <<>>
            /\ returned[r][1].source = "empty"
            /\ NumericFields \subseteq DOMAIN returned[r][1]
            /\ \A f \in NumericFields : returned[r][1][f] = "0"

(* C3: for a pair present in the Mock Position Store, with the chain       *)
(* lookup failing, the resolver of either variant returns source "mock"    *)
(* and the three numeric fields of that entry.                             *)
C3_MockMatchesStore ==
    \A r \in Reqs :
        (/\ ResolverDone(r) /\ ValidWallet(r) /\ KnownPool(r)
         /\ ~CallSucceeded(r)
         /\ InStore(ChecksumOf[ReqWallet(r)][2], ReqPool(r))) =>
            /\ returned[r] # <<>>
            /\ returned[r][1].source = "mock"
            /\ NumericFields \subseteq DOMAIN returned[r][1]
            /\ \A f \in NumericFields :
                   returned[r][1][f] =
                       MOCK_POSITIONS[ChecksumOf[ReqWallet(r)][2]][ReqPool(r)][f]

(* A request whose input is malformed or unknown: no task, an unknown      *)
(* task, or a position request without wallet or pool_id, with an invalid  *)
(* wallet address or with an unknown pool id.                              *)
ClientInputError(r) ==
    /\ request[r].valid_json
    /\ \/ NotGet(ReqDict(r), "task")
       \/ ReqTask(r) \notin {"summarize", "morpho_get_position"}
       \/ /\ ReqTask(r) = "morpho_get_position"
          /\ \/ NotGet(ReqDict(r), "wallet") \/ NotGet(ReqDict(r), "pool_id")
             \/ ~ValidWallet(r) \/ ~KnownPool(r)

(* C4: POST /tools answers every client-input error with a 4xx status,     *)
(* never with a 5xx or a success status.                                   *)
C4_ClientErrorsAre4xx ==
    \A r \in Reqs :
        (pc[r] = "done" /\ ClientInputError(r)) => resp[r].status \in 400..499

(* C5: for a pool id that is not in MARKETS the resolver of either variant *)
(* raises an HTTP 400 error and has issued no contract call.               *)
C5_UnknownPoolIs400 ==
    \A r \in Reqs :
        (ResolverDone(r) /\ ~KnownPool(r)) =>
            /\ raised[r] # <<>>
            /\ raised[r][1].status_code = 400
            /\ call_log[r] = <<>>

(* C6: every record the resolver returns has a source among chain, mock    *)
(* and empty.                                                              *)
C6_SourceTag ==
    \A r \in Reqs :
        returned[r] # <<>> => returned[r][1].source \in {"chain", "mock", "empty"}

(* C7: every record the resolver returns has the fields supply_shares,     *)
(* borrow_shares and collateral at its top level.                          *)
C7_AllFields ==
    \A r \in Reqs :
        returned[r] # <<>> => NumericFields \subseteq DOMAIN returned[r][1]

(* C8: for a valid wallet and a pool of MARKETS, get_morpho_position       *)
(* returns a record and raises nothing whatever the contract call did, and *)
(* the caller receives that record with status 200.                        *)
C8_UpstreamFailureRecovered ==
    \A r \in Reqs :
        (ResolverDone(r) /\ ValidWallet(r) /\ KnownPool(r)) =>
            /\ returned[r] # <<>>
            /\ raised[r] = <<>>
            /\ pc[r] = "done" =>
                   /\ resp[r].status = 200
                   /\ Payloads(resp[r]) = <<returned[r][1]>>

(* C8 witness: a request whose contract call failed was answered with 200. *)
C8_Witness ==
    \E r \in Reqs :
        /\ pc[r] = "done" /\ invoked[r] = {"get_morpho_position"}
        /\ call_log[r] = <<FALSE>>
        /\ resp[r].status = 200 /\ ~IsErrorResponse(resp[r])

(* C9 as stated: never more than one contract call per request, and        *)
(* exactly one once the resolver has run for a valid wallet and a known    *)
(* pool.                                                                   *)
C9_ExactlyOneAttempt ==
    \A r \in Reqs :
        /\ Len(call_log[r]) <= 1
        /\ (ResolverDone(r) /\ ValidWallet(r) /\ KnownPool(r)) => Len(call_log[r]) = 1

(* C9 amended: never more than one contract call per request; once the     *)
(* resolver has run for a valid wallet and a known pool, exactly one if    *)
(* the contract handle is initialised and none if it is None; a failed     *)
(* call is followed by the fallback record, not by a second call.          *)
C9_AtMostOneAttempt ==
    \A r \in Reqs :
        /\ Len(call_log[r]) <= 1
        /\ (ResolverDone(r) /\ ValidWallet(r) /\ KnownPool(r)) =>
               Len(call_log[r]) = (IF morpho_lens = NoneV THEN 0 ELSE 1)
        /\ (ResolverDone(r) /\ call_log[r] = <<FALSE>>) =>
               /\ returned[r] # <<>>
               /\ returned[r][1].source \in {"mock", "empty"}

(* C9 witness: the resolver returned a fallback record after its one       *)
(* contract call failed.                                                   *)
C9_Witness ==
    \E r \in Reqs :
        /\ pc[r] = "return" /\ call_log[r] = <<FALSE>>
        /\ returned[r] # <<>> /\ returned[r][1].source \in {"mock", "empty"}

(* C10 as stated: a summarize request without text, and a position request *)
(* without wallet or pool_id, end in an error and invoke no handler.       *)
C10_MissingParameterFails ==
    \A r \in Reqs :
        (/\ pc[r] = "done" /\ request[r].valid_json
         /\ \/ ReqTask(r) = "summarize" /\ "text" \notin DOMAIN ReqDict(r)
            \/ /\ ReqTask(r) = "morpho_get_position"
               /\ NotGet(ReqDict(r), "wallet") \/ NotGet(ReqDict(r), "pool_id")) =>
            /\ IsErrorResponse(resp[r])
            /\ invoked[r] = {}

(* C10 amended: a position request without wallet or pool_id never invokes *)
(* get_morpho_position and ends in the error "Missing wallet or pool_id";  *)
(* a summarize request without text is not an error: summarize_text is     *)
(* invoked with "" and {"summary": ""} is returned.                        *)
C10_MissingPositionParamFails ==
    \A r \in Reqs :
        /\ (/\ request[r].valid_json /\ ReqTask(r) = "morpho_get_position"
            /\ NotGet(ReqDict(r), "wallet") \/ NotGet(ReqDict(r), "pool_id")) =>
               /\ invoked[r] = {}
               /\ pc[r] \in {"run_tool", "stream_tool_response", "done"}
               /\ pc[r] = "done" =>
                      /\ IsErrorResponse(resp[r])
                      /\ ErrorText(resp[r]) \in {"Missing wallet or pool_id",
                                                 "400: Missing wallet or pool_id"}
        /\ (/\ pc[r] = "done" /\ request[r].valid_json
            /\ ReqTask(r) = "summarize" /\ "text" \notin DOMAIN ReqDict(r)) =>
               /\ invoked[r] = {"summarize_text"}
               /\ ~IsErrorResponse(resp[r])
               /\ Payloads(resp[r]) = <<[summary |-> ""]>>

(* C10 witness: a position request with a wallet and no pool_id ended in   *)
(* the error without the resolver being invoked.                           *)
C10_Witness ==
    \E r \in Reqs :
        /\ pc[r] = "done" /\ ReqTask(r) = "morpho_get_position"
        /\ ReqWallet(r) = TEST_EOA /\ "pool_id" \notin DOMAIN ReqDict(r)
        /\ invoked[r] = {} /\ IsErrorResponse(resp[r])

---------------------------------------------------------------------------
(* C11 as stated: in backend/main.py every request to POST /tools is       *)
(* answered by a stream of exactly one frame.                              *)
C11_ExactlyOneFrame ==
    \A r \in Reqs :
        (variant = "backend" /\ pc[r] = "done") =>
            /\ resp[r].media = "event-stream"
            /\ Len(resp[r].content) = 1

(* C11 amended: in backend/main.py every request whose body parses as JSON *)
(* is answered with status 200 by a stream of exactly one frame (a result, *)
(* an error the dispatcher detected, or the exception a handler raised); a *)
(* body that is not JSON is answered with HTTP 500 and no frame.           *)
C11_OneFramePerParsedBody ==
    \A r \in Reqs :
        (variant = "backend" /\ pc[r] = "done") =>
            IF request[r].valid_json
            THEN /\ resp[r].status = 200
                 /\ resp[r].media = "event-stream"
                 /\ Len(resp[r].content) = 1
                 /\ raised[r] # <<>> => "error" \in DOMAIN resp[r].content[1].data
            ELSE /\ resp[r].status = 500
                 /\ resp[r].content = <<>>

(* C11 witness: get_morpho_position raised and the stream holds the one    *)
(* error frame.                                                            *)
C11_Witness ==
    \E r \in Reqs :
        /\ variant = "backend" /\ pc[r] = "done"
        /\ raised[r] # <<>>
        /\ Len(resp[r].content) = 1 /\ IsErrorResponse(resp[r])

---------------------------------------------------------------------------
(* WebSocket vocabulary *)

(* The response the protocol prescribes for a frame: received with the     *)
(* parsed value when json.loads returns one, Invalid JSON when it does not.*)
PrescribedResponse(frame) ==
    IF JsonLoads(frame)[1] = "ok"
    THEN ReceivedResponse(JsonLoads(frame)[2])
    ELSE InvalidJsonResponse

(* The handler has left its receive loop. *)
WsLeftLoop == ws_pc \in {"except", "close", "end"}

(* C12 as stated: while the transport has not failed, every frame received *)
(* is answered by the response prescribed for it, and a frame that does    *)
(* not parse does not end the loop or close the connection.                *)
C12_EveryFrameAnswered ==
    /\ \A i \in 1..Len(ws_sent) : ws_sent[i] = PrescribedResponse(ws_received[i])
    /\ ws_fault = "none" => /\ ~WsLeftLoop
                            /\ ws_state # "Closed"
                            /\ ws_pc = "receive" => Len(ws_sent) = Len(ws_received)

(* C13: a transport exception raised by receive or by send takes the       *)
(* handler to its except block; from there the only step calls close, and  *)
(* the only step after that ends the call, with the connection Closed, and *)
(* the coroutine, no frame being received or sent on the way; close is     *)
(* never called twice and Closed is never left.                            *)
C13_TransportFaultCloses ==
    [][ /\ (ws_fault = "none" /\ ws_fault' # "none") =>
              (ws_state = "Open" /\ ws_pc' = "except")
        /\ ws_pc = "except" =>
              /\ ws_pc' = "close"
              /\ close_calls' = close_calls + 1
              /\ ws_received' = ws_received /\ ws_sent' = ws_sent
        /\ ws_pc = "close" =>
              /\ ws_pc' = "end"
              /\ ws_state' = "Closed"
              /\ close_calls' = close_calls
              /\ ws_received' = ws_received /\ ws_sent' = ws_sent
        /\ ws_state = "Closed" =>
              /\ ws_state' = "Closed"
              /\ ws_pc' = "end"
              /\ close_calls' = close_calls
              /\ ws_received' = ws_received /\ ws_sent' = ws_sent
        /\ close_calls' <= 1
        /\ ws_state' = "Closed" => close_calls' = 1
        /\ ws_pc' = "end" <=> ws_state' = "Closed"
      ]_vars

(* C13 witness: send_json raised after a frame had been answered, and the  *)
(* handler has closed the connection once and ended.                       *)
C13_Witness ==
    /\ ws_fault = "send" /\ Len(ws_sent) >= 1
    /\ ws_pc = "end" /\ ws_state = "Closed" /\ close_calls = 1

(* C17: the handler is back at receive only when every frame received has  *)
(* been answered; the i-th response sent answers the i-th frame received;  *)
(* the responses sent number the frames received or one less.              *)
C17_LockStep ==
    /\ Len(ws_sent) \in {Len(ws_received), Len(ws_received) - 1}
    /\ ws_pc = "receive" => Len(ws_sent) = Len(ws_received)
    /\ \A i \in 1..Len(ws_sent) : ws_sent[i] = PrescribedResponse(ws_received[i])

(* C17 witness: a second frame, different from the first, is being         *)
(* answered after the first response went out.                             *)
C17_Witness ==
    /\ Len(ws_received) = 2 /\ Len(ws_sent) = 1 /\ ws_pc = "send"
    /\ ws_received[1] = FrameText /\ ws_received[2] = FrameObject
    /\ ws_sent[1] = InvalidJsonResponse

---------------------------------------------------------------------------
(* Resolver vocabulary *)

(* get_morpho_position run on its own, from entry to exit: what it returns *)
(* (<<record>>) and what it raises (<<exception>>), given the wallet and   *)
(* the pool supplied and the outcome of its contract call (ok, position).  *)
ResolverAlone(wallet, pool_id, ok, position) ==
    LET cs  == ChecksumOf[wallet]
        mid == DictGet(MARKETS_AT_STARTUP, pool_id, NoneV)
    IN  IF cs[1] # "ok"
        THEN [returned |-> <<>>, raised |-> <<ResolverExcept(ValueError(cs[2]))>>]
        ELSE IF Falsy(mid)
        THEN [returned |-> <<>>,
              raised   |-> <<ResolverExcept(InvalidPoolRaise(variant, pool_id))>>]
        ELSE IF morpho_lens # NoneV /\ ok
        THEN [returned |-> <<ChainRecord(variant, cs[2], pool_id, mid, position[1])>>,
              raised   |-> <<>>]
        ELSE [returned |-> <<FallbackRecord(variant, MOCK_POSITIONS_AT_STARTUP,
                                            cs[2], pool_id, mid)>>,
              raised   |-> <<>>]

(* The wallet text with its hex letters in lower case. *)
LowerCased(wallet) ==
    LET cs == Chars(wallet) IN [i \in 1..Len(cs) |-> LowerChar(cs[i])]

(* The wallet strings submitted and their checksum forms. *)
WalletTexts ==
    (Wallets \ {NoneV}) \cup {ChecksumOf[w][2] : w \in {x \in Wallets \ {NoneV} : ChecksumOf[x][1] = "ok"}}

LowerCasedOf == [w \in WalletTexts |-> LowerCased(w)]

(* The text is its own checksum form. *)
InChecksumForm == [w \in WalletTexts |-> ToChecksumAddress(w) = <<"ok", w>>]

(* Two wallet strings that differ at most in letter case. *)
SameButCase(w1, w2) == LowerCasedOf[w1] = LowerCasedOf[w2]

(* C14: with requests interleaved at their awaits, what the resolver       *)
(* returns or raises for a request is what it returns or raises run alone  *)
(* on that request's wallet and pool id with the outcome of that request's *)
(* own contract call.                                                      *)
C14_Independent ==
    \A r \in ConcSlots :
        ResolverDone(r) =>
            LET alone == ResolverAlone(ReqWallet(r), ReqPool(r),
                                       CallSucceeded(r), call_position[r])
            IN  /\ returned[r] = alone.returned
                /\ raised[r] = alone.raised

(* C14 witness: two requests for different wallets are in flight; one got  *)
(* its position from the chain while the other, entered before it          *)
(* finished, is past a failed call.                                        *)
C14_Witness ==
    \E r1, r2 \in ConcSlots :
        /\ r1 # r2
        /\ pc[r1] = "return" /\ CallSucceeded(r1) /\ returned[r1] # <<>>
        /\ pc[r2] = "fallback" /\ call_log[r2] = <<FALSE>>
        /\ wallet_address[r1] # wallet_address[r2]

(* C15: two resolver calls whose wallets differ only in letter case, with  *)
(* the same pool id and the same contract-call outcome, end alike; the     *)
(* wallet of a returned record is the checksum form of the wallet          *)
(* supplied; in backend/main.py a wallet that is a stored one but for case *)
(* gets the stored entry when its call fails.                              *)
C15_CaseInsensitive ==
    /\ \A r1, r2 \in ConcSlots :
           (/\ ResolverDone(r1) /\ ResolverDone(r2)
            /\ SameButCase(ReqWallet(r1), ReqWallet(r2))
            /\ ReqPool(r1) = ReqPool(r2)
            /\ call_log[r1] = call_log[r2]
            /\ call_position[r1] = call_position[r2]) =>
               /\ returned[r1] = returned[r2]
               /\ raised[r1] = raised[r2]
    /\ \A r \in ConcSlots :
           (ResolverDone(r) /\ returned[r] # <<>>) =>
               /\ SameButCase(returned[r][1].wallet, ReqWallet(r))
               /\ returned[r][1].wallet = ChecksumOf[ReqWallet(r)][2]
               /\ InChecksumForm[returned[r][1].wallet]
    /\ \A r \in ConcSlots :
           \A w \in DOMAIN MOCK_POSITIONS_AT_STARTUP :
               (/\ variant = "backend" /\ ResolverDone(r) /\ ~CallSucceeded(r)
                /\ SameButCase(ReqWallet(r), w)
                /\ ReqPool(r) \in DOMAIN MOCK_POSITIONS_AT_STARTUP[w]) =>
                   /\ returned[r] # <<>>
                   /\ returned[r][1].source = "mock"
                   /\ \A f \in DOMAIN MOCK_POSITIONS_AT_STARTUP[w][ReqPool(r)] :
                          returned[r][1][f] = MOCK_POSITIONS_AT_STARTUP[w][ReqPool(r)][f]

(* C15 witness: backend answered the stored wallet and its lower-case      *)
(* spelling, both after a failed call, with records from the store.        *)
C15_Witness ==
    \E r1, r2 \in ConcSlots :
        /\ variant = "backend"
        /\ ResolverDone(r1) /\ ResolverDone(r2)
        /\ ReqWallet(r1) = TEST_EOA /\ ReqWallet(r2) = WALLET_LOWER
        /\ ReqPool(r1) = ReqPool(r2)
        /\ call_log[r1] = <<FALSE>> /\ call_log[r2] = <<FALSE>>
        /\ returned[r2] # <<>> /\ returned[r2][1].source = "mock"
        /\ returned[r2][1].wallet = TEST_EOA

(* C16: MARKETS and MOCK_POSITIONS equal their start-up values in every    *)
(* state, whatever requests have been served.                              *)
C16_ReadOnlyStores ==
    /\ MARKETS = MARKETS_AT_STARTUP
    /\ MOCK_POSITIONS = MOCK_POSITIONS_AT_STARTUP

(* C16 witness: backend has built a mock-sourced result from the stored    *)
(* entry, and the entry is as it was at start-up.                          *)
C16_Witness ==
    \E r \in Reqs :
        /\ variant = "backend" /\ pc[r] = "done"
        /\ returned[r] # <<>> /\ returned[r][1].source = "mock"
        /\ MOCK_POSITIONS[returned[r][1].wallet][ReqPool(r)]
               = MOCK_POSITIONS_AT_STARTUP[returned[r][1].wallet][ReqPool(r)]
        /\ "source" \notin DOMAIN MOCK_POSITIONS[returned[r][1].wallet][ReqPool(r)]

====
